---- MODULE Spec2Model ----
(***************************************************************************)
(* SelectionSet of cdk-experimental/selection/selection-set.ts.            *)
(*                                                                         *)
(* The container keeps an insertion-ordered Map from a tracked key to the  *)
(* selected SelectableWithIndex, and pushes a SelectionChange              *)
(* {before, after} on the `changed` Subject from select() and deselect().  *)
(***************************************************************************)
EXTENDS Integers, Sequences, FiniteSets, TLC

\* Largest number of arguments passed to one select(...)/deselect(...) call.
MaxArgs == 2
\* Largest number of observers subscribed to `changed`.
MaxObservers == 2
\* Deepest nesting of select/deselect calls made from inside a handler.
MaxDepth == 1

(***************************************************************************)
(* Values of type T.  o1 and o2 are two distinct objects that carry the    *)
(* same id (a re-fetched record); o3 carries another id.                   *)
(***************************************************************************)
Values == {"o1", "o2", "o3"}

id(value) == IF value = "o3" THEN "id2" ELSE "id1"

\* The argument a caller passes for an index that is absent.
undefined == "undefined"

\* SelectableWithIndex: {value: T, index?: number}.  `index` is optional, so
\* an entry either has the field or does not.
SelectableWithIndex ==
    { [value |-> "o1", index |-> 0],
      [value |-> "o2", index |-> 1],
      [value |-> "o3"] }

RECURSIVE SeqsUpTo(_, _)
SeqsUpTo(S, n) ==
    IF n = 0 THEN { <<>> }
    ELSE LET shorter == SeqsUpTo(S, n - 1)
         IN  shorter \cup { Append(s, e) : s \in shorter, e \in S }

\* The rest-parameter lists `...selects` a caller can pass.
ArgLists == SeqsUpTo(SelectableWithIndex, MaxArgs)

VARIABLES
    _multiple,      \* constructor argument: multiple selection allowed
    _trackByFn,     \* constructor argument: TRUE when a trackByFn was given
    devMode,        \* what isDevMode() returns (process-wide, fixed)
    _selectionMap,  \* Map<key, SelectableWithIndex>, in insertion order
    changed,        \* the SelectionChange most recently next()-ed on the
                    \* Subject: <<>> before the first one
    lastCall,       \* the most recent public call: its method, arguments,
                    \* how it ended, the number of events it published
                    \* and, for isSelected, what it returned
    observers,      \* number of observers subscribed to `changed`; they are
                    \* numbered 1..observers in subscription order
    trace           \* what the most recent call did on the stream: the
                    \* number of events produced (the call's own and those
                    \* of calls nested in handlers, numbered in production
                    \* order), the handler runs [to, seq] in the order they
                    \* started, and the observer whose handler re-entered

vars == <<_multiple, _trackByFn, devMode, _selectionMap, changed, lastCall,
          observers, trace>>

config == <<_multiple, _trackByFn, devMode>>

isDevMode == devMode

(***************************************************************************)
(* The ECMAScript Map: entries are kept in insertion order; set() on an    *)
(* existing key replaces the value in place, delete() closes the gap.      *)
(***************************************************************************)
MapHas_never(map, key) == FALSE

MapHas(map, key) == \E i \in 1..Len(map) : map[i].key = key

MapSet(map, key, value) ==
    IF MapHas(map, key)
    THEN [i \in 1..Len(map) |->
            IF map[i].key = key THEN [key |-> key, value |-> value] ELSE map[i]]
    ELSE Append(map, [key |-> key, value |-> value])

MapDelete(map, key) == SelectSeq(map, LAMBDA p : p.key # key)

MapClear_keep(map) == map

MapClear(map) == <<>>

MapValues(map) == [i \in 1..Len(map) |-> map[i].value]

(***************************************************************************)
(* Arrays.  Array.from() builds a new array, detached from the Map; an     *)
(* array that is a live view shows whatever the Map holds when it is read. *)
(***************************************************************************)
ArrayFrom(items) == [live |-> FALSE, items |-> items]

\* What reading `array` yields while the Map is `map`.
ContentsIn(array, map) ==
    IF array.live THEN MapValues(map) ELSE array.items

Contents(array) == ContentsIn(array, _selectionMap)

\* trackByFn(index, value) as passed to the constructor: identity is the id.
trackByFn(index, value) == id(value)

_getTrackedByValue_anyMode(select) ==
    IF ~_trackByFn
    THEN [threw |-> FALSE, key |-> select.value]
    ELSE IF "index" \notin DOMAIN select
    THEN [threw |-> TRUE, key |-> undefined]
    ELSE [threw |-> FALSE, key |-> id(select.value)]

_getTrackedByValue_byValue(select) == [threw |-> FALSE, key |-> select.value]

\* _getTrackedByValue: the key of `select`, or the throw of line 118.
_getTrackedByValue(select) ==
    IF ~_trackByFn
    THEN [threw |-> FALSE, key |-> select.value]
    ELSE IF "index" \notin DOMAIN select /\ isDevMode
    THEN [threw |-> TRUE, key |-> undefined]
    ELSE [threw |-> FALSE,
          key |-> trackByFn(IF "index" \in DOMAIN select
                            THEN select.index ELSE undefined,
                            select.value)]

\* isSelected as called on the Map `map`.
isSelected(map, value) ==
    LET tracked == _getTrackedByValue(value)
    IN  IF tracked.threw
        THEN [threw |-> TRUE, result |-> FALSE]
        ELSE [threw |-> FALSE, result |-> MapHas(map, tracked.key)]

_markSelected_front(map, key, toSelect) ==
    <<[key |-> key, value |-> toSelect]>> \o MapDelete(map, key)

_markSelected_underValue(map, key, toSelect) ==
    MapSet(map, toSelect.value, toSelect)

_markSelected(map, key, toSelect) == MapSet(map, key, toSelect)

_markDeselected_clear(map, key) == <<>>

_markDeselected(map, key) == MapDelete(map, key)

_getCurrentSelection_live(map) == [live |-> TRUE, items |-> MapValues(map)]

_getCurrentSelection(map) == ArrayFrom(MapValues(map))

notMultipleSelection_anyMode(selects) == ~_multiple /\ Len(selects) > 1

\* The guard of lines 58 and 84.
notMultipleSelection(selects) ==
    ~_multiple /\ Len(selects) > 1 /\ isDevMode

next_onlyIfChanged(before, after) ==
    IF before.items = after.items THEN <<>>
    ELSE << [before |-> before, after |-> after] >>

\* changed.next({before, after}): the events the call puts on the stream.
next(before, after) == << [before |-> before, after |-> after] >>

\* The for loop of select, from the i-th argument on.
RECURSIVE selectLoop(_, _, _)
selectLoop(map, selects, i) ==
    IF i > Len(selects) THEN [map |-> map, threw |-> FALSE]
    ELSE LET sel == isSelected(map, selects[i])
         IN  IF sel.threw THEN [map |-> map, threw |-> TRUE]
             ELSE IF sel.result THEN selectLoop(map, selects, i + 1)
             ELSE selectLoop(
                      _markSelected(map, _getTrackedByValue(selects[i]).key,
                                    selects[i]),
                      selects, i + 1)

\* The for loop of deselect, from the i-th argument on.
RECURSIVE deselectLoop(_, _, _)
deselectLoop(map, selects, i) ==
    IF i > Len(selects) THEN [map |-> map, threw |-> FALSE]
    ELSE LET sel == isSelected(map, selects[i])
         IN  IF sel.threw THEN [map |-> map, threw |-> TRUE]
             ELSE IF ~sel.result THEN deselectLoop(map, selects, i + 1)
             ELSE deselectLoop(
                      _markDeselected(map, _getTrackedByValue(selects[i]).key),
                      selects, i + 1)

\* select(...selects) run on `map`: the Map it leaves, how it ended and the
\* events it published.
select(map, selects) ==
    IF notMultipleSelection(selects)
    THEN [map |-> map, outcome |-> "MultipleNotAllowed", events |-> <<>>]
    ELSE LET before == _getCurrentSelection(map)
             start  == IF ~_multiple THEN MapClear(map) ELSE map
             loop   == selectLoop(start, selects, 1)
         IN  IF loop.threw
             THEN [map |-> loop.map, outcome |-> "MissingIndex",
                   events |-> <<>>]
             ELSE [map |-> loop.map, outcome |-> "returned",
                   events |-> next(before, _getCurrentSelection(loop.map))]

\* deselect(...selects) run on `map`.
deselect(map, selects) ==
    IF notMultipleSelection(selects)
    THEN [map |-> map, outcome |-> "MultipleNotAllowed", events |-> <<>>]
    ELSE LET before == _getCurrentSelection(map)
             loop   == deselectLoop(map, selects, 1)
         IN  IF loop.threw
             THEN [map |-> loop.map, outcome |-> "MissingIndex",
                   events |-> <<>>]
             ELSE [map |-> loop.map, outcome |-> "returned",
                   events |-> next(before, _getCurrentSelection(loop.map))]

(***************************************************************************)
(* The Subject `changed`.  next() runs the handler of every observer in    *)
(* subscription order, synchronously: a handler that calls select or       *)
(* deselect runs that whole call, its own next() included, before the      *)
(* dispatch in progress reaches the following observer.  A new observer    *)
(* of a plain Subject is handed nothing on subscription.                   *)
(***************************************************************************)
NoReaction == [who |-> 0, op |-> "none", args |-> <<>>]

\* What an observer's handler may do on every event it is handed: nothing, or
\* a select/deselect call (one that does not throw: one entry, with an index).
Reactions ==
    { NoReaction } \cup
    { [who |-> s, op |-> o, args |-> <<e>>] :
        s \in 1..observers, o \in {"select", "deselect"},
        e \in { x \in SelectableWithIndex : "index" \in DOMAIN x } }

Subject_replayLatest(observer, latest) ==
    IF latest = <<>> THEN <<>> ELSE << [to |-> observer, seq |-> 0] >>

\* subscribe() on `new Subject()`: the handler runs made for the new observer.
Subject_subscribe(observer, latest) == <<>>

RECURSIVE callIn(_, _, _, _, _)
RECURSIVE Subject_next(_, _, _, _, _)

Subject_next_later(st, seq, s, depth, react) == st

\* next(event) from the observer `s` on, `event` being the seq-th produced;
\* `st` is the Map, the events produced and the handler runs so far.
Subject_next(st, seq, s, depth, react) ==
    IF s > observers THEN st
    ELSE LET handed  == [st EXCEPT !.delivered =
                                     Append(@, [to |-> s, seq |-> seq])]
             handled == IF s = react.who /\ depth < MaxDepth
                        THEN callIn(handed, react.op, react.args, depth + 1,
                                    react)
                        ELSE handed
         IN  Subject_next(handled, seq, s + 1, depth, react)

\* select/deselect called at nesting `depth`, the dispatch of its event
\* included.
callIn(st, op, selects, depth, react) ==
    LET r == IF op = "select" THEN select(st.map, selects)
             ELSE deselect(st.map, selects)
    IN  IF r.events = <<>>
        THEN [st EXCEPT !.map = r.map]
        ELSE Subject_next(
                 [st EXCEPT !.map = r.map, !.emitted = @ \o r.events],
                 Len(st.emitted) + 1, 1, depth, react)

\* The most recent of the events seen so far.
Latest(events) ==
    IF Len(events) = 0 THEN events ELSE << events[Len(events)] >>

NoCall == [op |-> "none", args |-> <<>>, outcome |-> "returned",
           published |-> 0, result |-> FALSE]

Init ==
    /\ _multiple \in BOOLEAN
    /\ _trackByFn \in BOOLEAN
    /\ devMode \in BOOLEAN
    /\ _selectionMap = <<>>
    /\ changed = <<>>
    /\ lastCall = NoCall
    /\ observers = 0
    /\ trace = [produced |-> 0, delivered |-> <<>>, reentrant |-> 0]

\* One call of a mutating method, with its result `r`, while no observer is
\* subscribed.
Mutate(op, selects, r) ==
    /\ observers = 0
    /\ _selectionMap' = r.map
    /\ changed' = Latest(changed \o r.events)
    /\ lastCall' = [op |-> op, args |-> selects, outcome |-> r.outcome,
                    published |-> Len(r.events), result |-> FALSE]
    /\ trace' = [produced |-> Len(r.events), delivered |-> <<>>,
                 reentrant |-> 0]
    /\ UNCHANGED <<config, observers>>

Select ==
    \E selects \in ArgLists :
        Mutate("select", selects, select(_selectionMap, selects))

Deselect ==
    \E selects \in ArgLists :
        Mutate("deselect", selects, deselect(_selectionMap, selects))

\* One call of a mutating method with observers subscribed: the call, the
\* dispatch of its event and the calls the handlers make, as one step.
Dispatching(op, selects, react) ==
    \E r \in { IF op = "select" THEN select(_selectionMap, selects)
              ELSE deselect(_selectionMap, selects) } :
    \E st \in { callIn([map |-> _selectionMap, emitted |-> <<>>,
                      delivered |-> <<>>], op, selects, 0, react) } :
        /\ _selectionMap' = st.map
        /\ changed' = Latest(changed \o st.emitted)
        /\ lastCall' = [op |-> op, args |-> selects, outcome |-> r.outcome,
                        published |-> Len(r.events), result |-> FALSE]
        /\ trace' = [produced |-> Len(st.emitted),
                     delivered |-> st.delivered,
                     reentrant |-> IF Len(st.emitted) > 1 THEN react.who
                                   ELSE 0]
        /\ UNCHANGED <<config, observers>>

\* The argument lists of the calls made while observers are subscribed.
OneArg == { selects \in ArgLists : Len(selects) <= 1 }

SelectObserved ==
    \E selects \in OneArg, react \in Reactions :
        Dispatching("select", selects, react)

DeselectObserved ==
    \E selects \in OneArg, react \in Reactions :
        Dispatching("deselect", selects, react)

\* changed.subscribe(handler) by the owner of the container.
Subscribe ==
    /\ observers < MaxObservers
    /\ observers' = observers + 1
    /\ trace' = [produced |-> 0,
                 delivered |-> Subject_subscribe(observers + 1, changed),
                 reentrant |-> 0]
    /\ lastCall' = [op |-> "subscribe", args |-> <<>>,
                    outcome |-> "returned", published |-> 0,
                    result |-> FALSE]
    /\ UNCHANGED <<config, _selectionMap, changed>>

IsSelected ==
    \E value \in SelectableWithIndex :
        LET r == isSelected(_selectionMap, value)
        IN  /\ lastCall' = [op |-> "isSelected", args |-> <<value>>,
                            outcome |-> IF r.threw THEN "MissingIndex"
                                        ELSE "returned",
                            published |-> 0, result |-> r.result]
            /\ trace' = [produced |-> 0, delivered |-> <<>>, reentrant |-> 0]
            /\ UNCHANGED <<config, _selectionMap, changed, observers>>

\* The container without observers.
Next == Select \/ Deselect \/ IsSelected

Spec == Init /\ [][Next]_vars

\* The container with observers on `changed`.
NextObserved == Subscribe \/ SelectObserved \/ DeselectObserved

SpecObserved == Init /\ [][NextObserved]_vars

(***************************************************************************)
(* Vocabulary of the properties.                                           *)
(***************************************************************************)
a == [value |-> "o1", index |-> 0]
a2 == [value |-> "o2", index |-> 1]
b == [value |-> "o3"]

\* The key an entry is identified by, when it has one: the value itself, or
\* the id of the value when a trackByFn was given.
KeyOf(e) == IF _trackByFn THEN id(e.value) ELSE e.value

\* The entry has no index although the trackByFn needs one, in dev mode.
LacksIndex(e) == _trackByFn /\ devMode /\ "index" \notin DOMAIN e

Range(seq) == { seq[i] : i \in 1..Len(seq) }

Mutating == {"select", "deselect"}

\* The last call was `op` and it returned.
Returned(op) == lastCall.op = op /\ lastCall.outcome = "returned"

\* This step is a call of `op` that returns.
Returns(op) == lastCall'.op = op /\ lastCall'.outcome = "returned"

\* The most recent event, as read in the current state.
LastBefore == Contents(changed[1].before)
LastAfter == Contents(changed[1].after)

\* The most recent event of the next state, as read in the next state.
NewBefore == ContentsIn(changed'[1].before, _selectionMap')
NewAfter == ContentsIn(changed'[1].after, _selectionMap')

TypeOK ==
    /\ _multiple \in BOOLEAN /\ _trackByFn \in BOOLEAN /\ devMode \in BOOLEAN
    /\ Len(changed) <= 1
    /\ lastCall.op \in Mutating \cup {"isSelected", "subscribe", "none"}
    /\ observers \in 0..MaxObservers
    /\ lastCall.published \in 0..1

(***************************************************************************)
(* C1.  With multiple = false the selection map holds at most one entry in *)
(* every reachable state, in dev mode and in production mode.              *)
(***************************************************************************)
C1_SingleHoldsAtMostOne == ~_multiple => Len(_selectionMap) <= 1

(***************************************************************************)
(* C2, as stated.  Every call to select or deselect publishes exactly one  *)
(* event, so that the events published are as many as the calls made.      *)
(***************************************************************************)
C2_EventPerCall == lastCall.op \in Mutating => lastCall.published = 1

(***************************************************************************)
(* C2, amended.  A select/deselect call that returns publishes exactly one *)
(* event, whether or not it changed the map; a call that throws publishes  *)
(* none and leaves the stream as it was; the events published are as many  *)
(* as the calls that returned.                                             *)
(***************************************************************************)
C2_EventPerReturnedCall ==
    /\ [](lastCall.op \in Mutating =>
            lastCall.published = IF lastCall.outcome = "returned" THEN 1 ELSE 0)
    /\ [][ lastCall'.op \in Mutating =>
             /\ lastCall'.outcome = "returned" => Len(changed') = 1
             /\ lastCall'.outcome # "returned" => changed' = changed ]_vars

\* A deselect that found nothing to remove has published its event.
C2_Witness ==
    /\ Returned("deselect") /\ lastCall.args = <<b>>
    /\ lastCall.published = 1
    /\ Len(changed) = 1
    /\ LastBefore = <<a>>
    /\ LastAfter = <<a>>

(***************************************************************************)
(* C3.  The event a call publishes has in `before` the values of the map   *)
(* in insertion order as the call found them and in `after` the values as  *)
(* they are at publication; a later call leaves a published event as it    *)
(* was.                                                                    *)
(***************************************************************************)
C3_Snapshots ==
    [][ /\ lastCall'.published = 1 =>
            /\ NewBefore = MapValues(_selectionMap)
            /\ NewAfter = MapValues(_selectionMap')
        /\ \A i \in 1..Len(changed) :
            /\ ContentsIn(changed[i].before, _selectionMap')
                 = ContentsIn(changed[i].before, _selectionMap)
            /\ ContentsIn(changed[i].after, _selectionMap')
                 = ContentsIn(changed[i].after, _selectionMap) ]_vars

\* The published event shows two entries in the order of their insertion and
\* the one that was left.
C3_Witness ==
    /\ Len(changed) = 1
    /\ LastBefore = <<b, a>>
    /\ LastAfter = <<a>>
    /\ MapValues(_selectionMap) = <<a>>

(***************************************************************************)
(* C4.  With multiple = false, select(x) followed by select(y), x and y of *)
(* different keys, from any state: x is not selected, y is selected and    *)
(* the map holds exactly one entry.                                        *)
(***************************************************************************)
C4_SingleReplaces ==
    [][ \A x, y \in SelectableWithIndex :
          ( /\ ~_multiple
            /\ Returned("select") /\ lastCall.args = <<x>>
            /\ lastCall'.op = "select" /\ lastCall'.args = <<y>>
            /\ ~LacksIndex(y)
            /\ KeyOf(x) # KeyOf(y) )
          => /\ lastCall'.outcome = "returned"
             /\ ~isSelected(_selectionMap', x).result
             /\ isSelected(_selectionMap', y).result
             /\ MapValues(_selectionMap') = <<y>> ]_vars

\* select(b) has replaced the a that was selected.
C4_Witness ==
    /\ ~_multiple
    /\ Returned("select") /\ lastCall.args = <<b>>
    /\ Len(changed) = 1
    /\ LastBefore = <<a>>
    /\ LastAfter = <<b>>
    /\ MapValues(_selectionMap) = <<b>>
    /\ ~isSelected(_selectionMap, a).result

\* The passed entries that select adds to `map`: those whose key is neither
\* in the map nor passed earlier in the same call, in argument order.
NewlySelected(map, selects) ==
    LET isNew(i) ==
            /\ \A j \in 1..Len(map) : KeyOf(map[j].value) # KeyOf(selects[i])
            /\ \A j \in 1..(i - 1) : KeyOf(selects[j]) # KeyOf(selects[i])
        F[i \in 0..Len(selects)] ==
            IF i = 0 THEN <<>>
            ELSE IF isNew(i) THEN Append(F[i - 1], selects[i]) ELSE F[i - 1]
    IN  F[Len(selects)]

(***************************************************************************)
(* C5.  With multiple = true select never removes or reorders: `after` is  *)
(* `before` followed by the passed entries whose key was not in the map,   *)
(* in argument order, each key once; every passed entry is then selected.  *)
(* select(a); select(a2); select(b) from empty yields [a, a2, b].          *)
(***************************************************************************)
C5_MultiAppends ==
    [][ ( _multiple /\ Returns("select") )
        => /\ NewBefore = MapValues(_selectionMap)
           /\ NewAfter = NewBefore \o NewlySelected(_selectionMap, lastCall'.args)
           /\ MapValues(_selectionMap') = NewAfter
           /\ \A e \in Range(lastCall'.args) :
                isSelected(_selectionMap', e).result ]_vars

\* The third of three entries selected one by one is held last.
C5_Witness ==
    /\ _multiple
    /\ Returned("select") /\ lastCall.args = <<b>>
    /\ Len(changed) = 1
    /\ LastBefore = <<a, a2>>
    /\ LastAfter = <<a, a2, b>>
    /\ \A e \in {a, a2, b} : isSelected(_selectionMap, e).result

(***************************************************************************)
(* C6.  In both modes deselect never adds or reorders: `after` is `before` *)
(* without the entries whose key is the key of a passed entry, the others  *)
(* keeping their order; with multiple = false the map is not cleared.      *)
(***************************************************************************)
C6_DeselectRemoves ==
    [][ Returns("deselect")
        => LET passed == { KeyOf(e) : e \in Range(lastCall'.args) }
               kept(e) == KeyOf(e) \notin passed
           IN  /\ NewBefore = MapValues(_selectionMap)
               /\ NewAfter = SelectSeq(NewBefore, kept)
               /\ MapValues(_selectionMap') = NewAfter ]_vars

\* deselect(a2) took the middle entry out of [a, a2, b].
C6_Witness ==
    /\ Returned("deselect") /\ lastCall.args = <<a2>>
    /\ Len(changed) = 1
    /\ LastBefore = <<a, a2, b>>
    /\ LastAfter = <<a, b>>
    /\ MapValues(_selectionMap) = <<a, b>>

(***************************************************************************)
(* C7.  In both modes and from any state, the second of select(x);         *)
(* select(x) leaves the selection as it was, members and order, and        *)
(* publishes one event, whose `before` equals its `after`.                 *)
(***************************************************************************)
C7_Reselect ==
    [][ \A x \in SelectableWithIndex :
          ( /\ Returned("select") /\ lastCall.args = <<x>>
            /\ lastCall'.op = "select" /\ lastCall'.args = <<x>> )
          => /\ lastCall'.outcome = "returned"
             /\ _selectionMap' = _selectionMap
             /\ lastCall.published = 1
             /\ lastCall'.published = 1
             /\ NewBefore = NewAfter
             /\ NewAfter = MapValues(_selectionMap) ]_vars

\* select(a) on a selection that holds a after b has published an event
\* without a change.
C7_Witness ==
    /\ Returned("select") /\ lastCall.args = <<a>>
    /\ lastCall.published = 1
    /\ Len(changed) = 1
    /\ LastBefore = <<b, a>>
    /\ LastAfter = <<b, a>>
    /\ MapValues(_selectionMap) = <<b, a>>

(***************************************************************************)
(* C8.  deselect(x) for an x whose key is not in the map leaves the map as *)
(* it was and publishes exactly one event, whose `before` equals its       *)
(* `after`.                                                                *)
(***************************************************************************)
C8_DeselectAbsent ==
    [][ \A x \in SelectableWithIndex :
          ( /\ lastCall'.op = "deselect" /\ lastCall'.args = <<x>>
            /\ ~LacksIndex(x)
            /\ \A i \in 1..Len(_selectionMap) :
                 _selectionMap[i].key # KeyOf(x) )
          => /\ lastCall'.outcome = "returned"
             /\ _selectionMap' = _selectionMap
             /\ lastCall'.published = 1
             /\ NewBefore = MapValues(_selectionMap)
             /\ NewAfter = NewBefore ]_vars

\* deselect(a) on a selection holding a2 and b, which have other keys.
C8_Witness ==
    /\ ~_trackByFn
    /\ Returned("deselect") /\ lastCall.args = <<a>>
    /\ lastCall.published = 1
    /\ Len(changed) = 1
    /\ LastBefore = <<a2, b>>
    /\ LastAfter = <<a2, b>>
    /\ MapValues(_selectionMap) = <<a2, b>>

(***************************************************************************)
(* C9.  With a trackByFn identity is the derived key, not the value: once  *)
(* select(e1) has returned, isSelected(e2) is true for every e2 of the     *)
(* same key, also when e2.value is another object, and deselect(e2)        *)
(* removes the entry stored for e1.                                        *)
(***************************************************************************)
C9_IdentityByKey ==
    [][ \A e1, e2 \in SelectableWithIndex :
          ( /\ _trackByFn
            /\ ~LacksIndex(e2)
            /\ id(e1.value) = id(e2.value) )
          => /\ ( Returns("select") /\ lastCall'.args = <<e1>> )
                => isSelected(_selectionMap', e2)
                     = [threw |-> FALSE, result |-> TRUE]
             /\ ( /\ lastCall'.op = "isSelected" /\ lastCall'.args = <<e2>>
                  /\ e1 \in Range(MapValues(_selectionMap)) )
                => lastCall'.outcome = "returned" /\ lastCall'.result
             /\ ( /\ lastCall'.op = "deselect" /\ lastCall'.args = <<e2>>
                  /\ e1 \in Range(MapValues(_selectionMap)) )
                => /\ lastCall'.outcome = "returned"
                   /\ e1 \notin Range(MapValues(_selectionMap'))
                   /\ Len(_selectionMap') = Len(_selectionMap) - 1 ]_vars

\* In dev mode deselect(a2) removed the stored a: another object, another
\* index, the same id.
C9_Witness ==
    /\ _trackByFn /\ devMode
    /\ Returned("deselect") /\ lastCall.args = <<a2>>
    /\ Len(changed) = 1
    /\ LastBefore = <<a>>
    /\ LastAfter = <<>>
    /\ _selectionMap = <<>>

(***************************************************************************)
(* C10.  With multiple = false, select or deselect with more than one      *)
(* entry throws in dev mode, before the map is touched and without an      *)
(* event; in production mode the call does not throw and runs the normal   *)
(* logic over all the passed entries.                                      *)
(***************************************************************************)
C10_NotMultiple ==
    [][ ( /\ ~_multiple
          /\ lastCall'.op \in Mutating
          /\ Len(lastCall'.args) > 1 )
        => /\ devMode =>
                /\ lastCall'.outcome = "MultipleNotAllowed"
                /\ _selectionMap' = _selectionMap
                /\ changed' = changed
                /\ lastCall'.published = 0
           /\ ~devMode =>
                /\ lastCall'.outcome = "returned"
                /\ lastCall'.published = 1
                /\ NewBefore = MapValues(_selectionMap)
                /\ NewAfter = MapValues(_selectionMap')
                /\ \A e \in Range(lastCall'.args) :
                     isSelected(_selectionMap', e).result
                       = (lastCall'.op = "select") ]_vars

\* select(a, b) threw and the selected a is still there.
C10_Witness ==
    /\ ~_multiple /\ devMode
    /\ lastCall.op = "select" /\ lastCall.args = <<a, b>>
    /\ lastCall.outcome = "MultipleNotAllowed"
    /\ lastCall.published = 0
    /\ MapValues(_selectionMap) = <<a>>
    /\ Len(changed) = 1
    /\ LastAfter = <<a>>
C12_NoPartialFailure ==
    [][ ( lastCall'.op \in Mutating /\ lastCall'.outcome # "returned" )
        => _selectionMap' = _selectionMap ]_vars
(***************************************************************************)
(* Vocabulary of the stream properties.                                    *)
(***************************************************************************)
\* The events observer s was handed in the last call, in the order it was
\* handed them, each named by its number in production order.
ReceivedBy(s) ==
    LET runs == SelectSeq(trace.delivered, LAMBDA d : d.to = s)
    IN  [i \in 1..Len(runs) |-> runs[i].seq]

\* The observers event seq was handed to, in the order of the handler runs.
HandedTo(seq) ==
    LET runs == SelectSeq(trace.delivered, LAMBDA d : d.seq = seq)
    IN  [i \in 1..Len(runs) |-> runs[i].to]

Ascending(n) == [i \in 1..n |-> i]
Descending(n) == [i \in 1..n |-> n + 1 - i]

(***************************************************************************)
(* C13, as stated.  Every observer receives each event of a call exactly   *)
(* once and in the order the events were produced, also when an observer   *)
(* calls select or deselect from inside its handler.                       *)
(***************************************************************************)
C13_OnceInOrder ==
    \A s \in 1..observers : ReceivedBy(s) = Ascending(trace.produced)

(***************************************************************************)
(* C13, amended.  A call that returns produces its event, and every        *)
(* observer receives each event produced exactly once.  The events arrive  *)
(* in the order they were produced unless an observer calls select or      *)
(* deselect from inside its handler: then that observer and those          *)
(* subscribed before it still receive them in production order, and those  *)
(* subscribed after it receive the event of the nested call before the     *)
(* event whose dispatch is in progress.                                    *)
(***************************************************************************)
C13_OnceEach ==
    /\ (lastCall.op \in Mutating /\ lastCall.outcome = "returned")
          => trace.produced >= 1
    /\ Len(trace.delivered) = observers * trace.produced
    /\ \A s \in 1..observers : \A k \in 1..trace.produced :
          Cardinality({ i \in 1..Len(trace.delivered) :
                          trace.delivered[i] = [to |-> s, seq |-> k] }) = 1
    /\ \A s \in 1..observers :
          IF trace.reentrant = 0 \/ s <= trace.reentrant
          THEN ReceivedBy(s) = Ascending(trace.produced)
          ELSE ReceivedBy(s) = Descending(trace.produced)

\* Observer 1 called from its handler: it received the two events in the
\* order they were produced, observer 2 the nested one first.
C13_Witness ==
    /\ observers = 2
    /\ trace.reentrant = 1
    /\ trace.produced = 2
    /\ ReceivedBy(1) = <<1, 2>>
    /\ ReceivedBy(2) = <<2, 1>>

(***************************************************************************)
(* C14.  When a select or deselect call returns, the mutation of the map   *)
(* is complete and the handler of every subscribed observer has run for    *)
(* the call's event, the handlers having run in subscription order; a call *)
(* that throws has run no handler.                                         *)
(***************************************************************************)
C14_SynchronousDispatch ==
    lastCall.op \in Mutating =>
        IF lastCall.outcome = "returned"
        THEN /\ trace.produced >= 1
             /\ \A k \in 1..trace.produced : HandedTo(k) = Ascending(observers)
             /\ Len(changed) = 1
             /\ MapValues(_selectionMap) = LastAfter
        ELSE trace.delivered = <<>>

\* select(a) returned after the handlers of both observers had run.
C14_Witness ==
    /\ observers = 2
    /\ Returned("select") /\ lastCall.args = <<a>>
    /\ trace.delivered = << [to |-> 1, seq |-> 1], [to |-> 2, seq |-> 1] >>
    /\ MapValues(_selectionMap) = <<a>>

(***************************************************************************)
(* C15.  The stream neither buffers nor replays: an observer that          *)
(* subscribes after events were published is handed none of them; the      *)
(* handlers only ever run on events produced by the call in progress.      *)
(***************************************************************************)
C15_NoReplay ==
    /\ [][ observers' = observers + 1 =>
             /\ trace'.delivered = <<>>
             /\ changed' = changed ]_vars
    /\ [](\A i \in 1..Len(trace.delivered) :
             /\ trace.delivered[i].seq \in 1..trace.produced
             /\ trace.delivered[i].to \in 1..observers)

\* An observer subscribed after an event had been published and was handed
\* nothing.
C15_Witness ==
    /\ lastCall.op = "subscribe"
    /\ observers = 2
    /\ Len(changed) = 1
    /\ LastAfter = <<a>>
    /\ trace.delivered = <<>>

(***************************************************************************)
(* C16.  With multiple = false, select of an entry whose key is the key of *)
(* the selected entry leaves the map as it was, the stored entry being the *)
(* same before and after, and publishes an event with `before` equal to    *)
(* `after`; also when a trackByFn is given and the passed entry has        *)
(* another value or index than the stored one.                             *)
(***************************************************************************)
C16_SameKeyNoOp ==
    [][ \A e \in SelectableWithIndex :
          ( /\ ~_multiple
            /\ Len(_selectionMap) = 1
            /\ _selectionMap[1].key = KeyOf(e)
            /\ lastCall'.op = "select" /\ lastCall'.args = <<e>>
            /\ ~LacksIndex(e) )
          => /\ lastCall'.outcome = "returned"
             /\ _selectionMap' = _selectionMap
             /\ NewBefore = NewAfter ]_vars

(***************************************************************************)
(* C17.  In every reachable state each stored entry sits under the key     *)
(* derived from it and no two stored entries have equal derived keys;      *)
(* isSelected(e) returns true exactly when the map holds an entry whose    *)
(* derived key is that of e, and it changes neither the map nor its order  *)
(* and publishes no event.                                                 *)
(***************************************************************************)
C17_KeysAndLookup ==
    /\ [](\A i \in 1..Len(_selectionMap) :
            /\ _selectionMap[i].key = KeyOf(_selectionMap[i].value)
            /\ \A j \in 1..Len(_selectionMap) :
                 i # j => KeyOf(_selectionMap[i].value)
                            # KeyOf(_selectionMap[j].value))
    /\ [](lastCall.op = "isSelected" =>
            /\ lastCall.published = 0
            /\ lastCall.result
                 <=> /\ lastCall.outcome = "returned"
                     /\ \E i \in 1..Len(_selectionMap) :
                          KeyOf(_selectionMap[i].value)
                            = KeyOf(lastCall.args[1]))
    /\ [][ lastCall'.op = "isSelected" =>
             /\ _selectionMap' = _selectionMap
             /\ changed' = changed ]_vars

\* With a trackByFn, the stored a answers for a2, which has the same id, and
\* the map is as it was.
C17_Witness ==
    /\ _trackByFn
    /\ lastCall.op = "isSelected" /\ lastCall.args = <<a2>>
    /\ lastCall.outcome = "returned"
    /\ lastCall.result
    /\ MapValues(_selectionMap) = <<b, a>>
    /\ _selectionMap[2].key = id("o2")

(***************************************************************************)
(* C18.  The events are a history of the map without gaps: of two events   *)
(* published one after the other the `after` of the earlier is the         *)
(* `before` of the later, and the `after` of the latest event is the       *)
(* contents of the map, after any isSelected, select and deselect calls in *)
(* dev mode and in production mode, those that throw included.             *)
(***************************************************************************)
C18_GapFreeHistory ==
    /\ [](Len(changed) = 1 => LastAfter = MapValues(_selectionMap))
    /\ [][ (lastCall'.published = 1 /\ Len(changed) = 1)
             => NewBefore = LastAfter ]_vars

(***************************************************************************)
(* C19.  With multiple = false, select without entries empties the map and *)
(* publishes an event whose `after` is empty; with multiple = true, select *)
(* without entries, and deselect without entries with either setting,      *)
(* leave the map as it was and publish an event with `before` equal to     *)
(* `after`.                                                                *)
(***************************************************************************)
C19_ZeroEntries ==
    [][ (lastCall'.op \in Mutating /\ lastCall'.args = <<>>) =>
          /\ lastCall'.outcome = "returned"
          /\ lastCall'.published = 1
          /\ NewBefore = MapValues(_selectionMap)
          /\ IF lastCall'.op = "select" /\ ~_multiple
             THEN /\ _selectionMap' = <<>>
                  /\ NewAfter = <<>>
             ELSE /\ _selectionMap' = _selectionMap
                  /\ NewAfter = NewBefore ]_vars

\* select() has dropped the a that was selected.
C19_Witness ==
    /\ ~_multiple
    /\ Returned("select") /\ lastCall.args = <<>>
    /\ LastBefore = <<a>>
    /\ LastAfter = <<>>
    /\ _selectionMap = <<>>
====
